---------------------------- MODULE Spec2Model ----------------------------
(***************************************************************************)
(* The read path of tantivy's document store (src/store/reader.rs):       *)
(* StoreReader::open, read_block with its LRU block cache, get,           *)
(* get_multiple and split_file, with the callers' threads as processes.   *)
(*                                                                         *)
(* Bytes are naturals below 256, a byte string is a sequence of bytes, a  *)
(* document is the sequence of its field bytes.  The collaborators that   *)
(* reader.rs only calls (VInt, Document, the codec, FileSlice, SkipIndex) *)
(* are modelled from their contracts and work on the bytes.               *)
(***************************************************************************)
EXTENDS Integers, Sequences, FiniteSets, TLC

(***************************************************************************)
(* Bounds of the model.                                                    *)
(***************************************************************************)
\* Calls a behaviour may start once the driver's script (if any) has run.
MaxCalls == 3
\* Longest id list a get_multiple call is given.
MaxIds == 2
\* Calls a behaviour may start when two callers share a reader that also
\* serves get_multiple, or when their steps are scheduled fairly.
MaxSharedCalls == 2

(***************************************************************************)
(* Program constants.                                                      *)
(***************************************************************************)
LRU_CACHE_CAPACITY == 100
\* size_of::<u64>()
FooterLen == 8
\* size_of::<u32>(): DocId, and the skip index's fields
U32Len == 4

NoThread == 0

NoKey == -1

(***************************************************************************)
(* Sequence helpers.                                                       *)
(***************************************************************************)
\* The sequences seqs[lo..hi], one after the other.
RECURSIVE Flatten(_, _, _)
Flatten(seqs, lo, hi) ==
    IF lo > hi THEN <<>>
    ELSE IF lo = hi THEN seqs[lo] \o <<>>
    ELSE Flatten(seqs, lo, (lo + hi) \div 2) \o Flatten(seqs, (lo + hi) \div 2 + 1, hi)

\* nums[lo] + ... + nums[hi]
RECURSIVE Sum(_, _, _)
Sum(nums, lo, hi) ==
    IF lo > hi THEN 0
    ELSE IF lo = hi THEN nums[lo]
    ELSE Sum(nums, lo, (lo + hi) \div 2) + Sum(nums, (lo + hi) \div 2 + 1, hi)

\* The sequence f(1), ..., f(n)
Tabulate(f(_), n) == Flatten([i \in 1..n |-> <<f(i)>>], 1, n)

(***************************************************************************)
(* VInt: 7 bits per byte, least significant group first, the last byte     *)
(* carries the stop bit 128.                                               *)
(***************************************************************************)
RECURSIVE VIntSerialize(_)
VIntSerialize(val) ==
    IF val < 128 THEN <<val + 128>>
    ELSE <<val % 128>> \o VIntSerialize(val \div 128)

RECURSIVE VIntRead(_, _, _)
VIntRead(cursor, shift, acc) ==
    IF cursor = <<>> THEN [ok |-> FALSE, val |-> 0, rest |-> <<>>]
    ELSE LET b == Head(cursor) IN
         IF b >= 128
         THEN [ok |-> TRUE, val |-> acc + (b - 128) * shift, rest |-> Tail(cursor)]
         ELSE VIntRead(Tail(cursor), shift * 128, acc + b * shift)

\* VInt::deserialize(&mut cursor): the value and the advanced cursor, or an
\* error when the bytes end before the stop bit.
VIntDeserialize(cursor) == VIntRead(cursor, 1, 0)

(***************************************************************************)
(* Document (de)serialization: the number of fields, then the fields.      *)
(***************************************************************************)
DocumentSerialize(doc) == VIntSerialize(Len(doc)) \o doc

DocumentDeserialize(cursor) ==
    LET n == VIntDeserialize(cursor) IN
    IF ~n.ok \/ Len(n.rest) < n.val THEN [ok |-> FALSE, doc |-> <<>>]
    ELSE [ok |-> TRUE, doc |-> SubSeq(n.rest, 1, n.val)]

(***************************************************************************)
(* The writer's block layout: repeat { VInt(record_length), record }.      *)
(***************************************************************************)
StoreRecord(doc) ==
    LET s == DocumentSerialize(doc) IN VIntSerialize(Len(s)) \o s

RECURSIVE BlockBytes(_)
BlockBytes(docs) ==
    IF docs = <<>> THEN <<>>
    ELSE StoreRecord(Head(docs)) \o BlockBytes(Tail(docs))

(***************************************************************************)
(* The codec: a one-byte length header, then the bytes shifted by one.     *)
(***************************************************************************)
compress(bytes) ==
    LET Shifted(i) == (bytes[i] + 1) % 256 IN
    <<Len(bytes)>> \o Tabulate(Shifted, Len(bytes))

\* decompress(compressed, &mut out): an error on a truncated or malformed input.
decompress(compressed) ==
    IF compressed = <<>> \/ compressed[1] # Len(compressed) - 1
    THEN [ok |-> FALSE, bytes |-> <<>>]
    ELSE LET Unshifted(i) == (compressed[i + 1] + 255) % 256 IN
         [ok |-> TRUE, bytes |-> Tabulate(Unshifted, Len(compressed) - 1)]

(***************************************************************************)
(* Fixed-width integers, little endian: u64 in 8 bytes, u32 in 4.          *)
(***************************************************************************)
RECURSIVE LittleEndianBytes(_, _)
LittleEndianBytes(val, n) ==
    IF n = 0 THEN <<>> ELSE <<val % 256>> \o LittleEndianBytes(val \div 256, n - 1)

RECURSIVE LittleEndianValue(_)
LittleEndianValue(bytes) ==
    IF bytes = <<>> THEN 0 ELSE Head(bytes) + 256 * LittleEndianValue(Tail(bytes))

U64Serialize(val) == LittleEndianBytes(val, FooterLen)

\* u64::deserialize(&mut buf): an error when fewer than 8 bytes are left.
U64Deserialize(bytes) ==
    IF Len(bytes) < FooterLen THEN [ok |-> FALSE, val |-> 0]
    ELSE [ok |-> TRUE, val |-> LittleEndianValue(SubSeq(bytes, 1, FooterLen))]

U32Serialize(val) == LittleEndianBytes(val, U32Len)

\* The u32 at 0-based offset `at` of bytes, 0 when the bytes end before it.
U32At(bytes, at) ==
    IF at + U32Len > Len(bytes) THEN 0
    ELSE LittleEndianValue(SubSeq(bytes, at + 1, at + U32Len))

(***************************************************************************)
(* The skip index: num_docs, then per checkpoint start_doc, start_offset   *)
(* and end_offset, each a u32.                                             *)
(***************************************************************************)
Checkpoint(start_doc, start_offset, end_offset) ==
    [start_doc |-> start_doc, start_offset |-> start_offset, end_offset |-> end_offset]

CheckpointSerialize(c) ==
    U32Serialize(c.start_doc) \o U32Serialize(c.start_offset)
        \o U32Serialize(c.end_offset)

SkipIndexSerialize(num_docs, cps) ==
    U32Serialize(num_docs)
        \o Flatten([i \in 1..Len(cps) |-> CheckpointSerialize(cps[i])], 1, Len(cps))

\* SkipIndex::open(index_data): infallible; it holds the whole checkpoints
\* the bytes hold.
SkipIndexOpen(bytes) ==
    LET CheckpointAt(i) ==
            Checkpoint(U32At(bytes, U32Len * (3 * i - 2)),
                       U32At(bytes, U32Len * (3 * i - 1)),
                       U32At(bytes, U32Len * (3 * i)))
    IN [num_docs |-> U32At(bytes, 0),
        checkpoints |-> Tabulate(CheckpointAt, (Len(bytes) - U32Len) \div (3 * U32Len))]

\* SkipIndex::seek(doc_id): the checkpoint whose doc range holds doc_id, or none.
SkipIndexSeek(skip_index, doc_id) ==
    LET cps == skip_index.checkpoints
        hits == {i \in 1..Len(cps) :
                    /\ cps[i].start_doc <= doc_id
                    /\ doc_id < (IF i < Len(cps) THEN cps[i + 1].start_doc
                                 ELSE skip_index.num_docs)}
    IN IF hits = {} THEN [some |-> FALSE, checkpoint |-> Checkpoint(0, 0, 0)]
       ELSE [some |-> TRUE, checkpoint |-> cps[CHOOSE i \in hits : TRUE]]

(***************************************************************************)
(* FileSlice: a lazily checked byte range [from, to) of the store file.    *)
(* Splitting and slicing never fail; reading a range that is not inside    *)
(* the file, or that touches an unreadable byte, is an I/O error.          *)
(***************************************************************************)
FileSlice(from, to) == [from |-> from, to |-> to]

\* HasLen::len
SliceLen(s) == s.to - s.from

\* FileSlice::split(left_len)
split(s, left_len) ==
    <<FileSlice(s.from, s.from + left_len), FileSlice(s.from + left_len, s.to)>>

\* FileSlice::split_from_end(right_len)
split_from_end(s, right_len) == split(s, SliceLen(s) - right_len)

\* FileSlice::slice(from, to)
slice(s, from, to) == FileSlice(s.from + from, s.from + to)

\* FileSlice::read_bytes on the file `st`
read_bytes(st, s) ==
    IF /\ 0 <= s.from /\ s.from <= s.to /\ s.to <= Len(st.file)
       /\ \A o \in st.unreadable : ~(s.from <= o /\ o < s.to)
    THEN [ok |-> TRUE, bytes |-> SubSeq(st.file, s.from + 1, s.to)]
    ELSE [ok |-> FALSE, bytes |-> <<>>]

\* FileSlice::read_bytes_slice_multiple(ranges) on the slice s
read_bytes_slice_multiple(st, s, ranges) ==
    \A i \in 1..Len(ranges) : read_bytes(st, slice(s, ranges[i][1], ranges[i][2])).ok

(***************************************************************************)
(* Store files, as the writer lays them out: the compressed blocks back to *)
(* back, the serialized skip index, the 8-byte offset of the skip index.   *)
(***************************************************************************)
\* The document written at id i ("Doc i"): one or two field bytes.
Doc(i) == IF i % 2 = 0 THEN <<i + 1>> ELSE <<i + 1, 7>>

\* The documents first..last
DocRange(first, last) ==
    LET DocAt(i) == Doc(first + i - 1) IN Tabulate(DocAt, last - first + 1)

\* A block of the data segment: its compressed bytes and its number of docs.
StoreBlock(ndocs, comp) == [ndocs |-> ndocs, comp |-> comp]

WrittenBlock(first, last) ==
    StoreBlock(last - first + 1, compress(BlockBytes(DocRange(first, last))))

DataSegment(blocks) ==
    Flatten([i \in 1..Len(blocks) |-> blocks[i].comp], 1, Len(blocks))

NumDocs(blocks) == Sum([i \in 1..Len(blocks) |-> blocks[i].ndocs], 1, Len(blocks))

\* One checkpoint per block, the blocks back to back, the doc ids dense from 0.
BlockCheckpoints(blocks) ==
    LET lens == [i \in 1..Len(blocks) |-> Len(blocks[i].comp)]
        docs == [i \in 1..Len(blocks) |-> blocks[i].ndocs]
        CheckpointOf(i) ==
            Checkpoint(Sum(docs, 1, i - 1), Sum(lens, 1, i - 1), Sum(lens, 1, i))
    IN Tabulate(CheckpointOf, Len(blocks))

StoreFile(blocks) ==
    LET data == DataSegment(blocks) IN
    data \o SkipIndexSerialize(NumDocs(blocks), BlockCheckpoints(blocks))
         \o U64Serialize(Len(data))

\* A store: its file, the offsets of the bytes the storage cannot read, the
\* documents written to it and the ids whose block was damaged after writing
\* (both ghost: the reader never sees them), and the driver's use of it: the
\* ids it asks for, whether it calls get_multiple, the gets it starts with.
Store(name, file, unreadable, written, damaged, ids, batches, script) ==
    [name |-> name, file |-> file, unreadable |-> unreadable,
     written |-> written, damaged |-> damaged, ids |-> ids, batches |-> batches,
     script |-> script]

\* Three blocks: docs 0-1, doc 2, docs 3-4.
GoodBlocks == <<WrittenBlock(0, 1), WrittenBlock(2, 2), WrittenBlock(3, 4)>>

\* The same blocks with corrupt length prefixes inside: the first record of
\* block 1 and the second record of block 3 claim 100 bytes, the record of
\* block 2 claims one byte of its two.
CorruptBlocks ==
    <<StoreBlock(2, compress(<<228>> \o Tail(BlockBytes(DocRange(0, 1))))),
      StoreBlock(1, compress(<<129>> \o Tail(BlockBytes(DocRange(2, 2))))),
      StoreBlock(2, compress(StoreRecord(Doc(3)) \o <<228>>
                             \o Tail(StoreRecord(Doc(4)))))>>

\* The same blocks with block 2's compressed bytes malformed (a wrong codec
\* header); the store below also makes the first byte of block 3 unreadable.
FaultyBlocks ==
    <<WrittenBlock(0, 1),
      StoreBlock(1, <<99>> \o Tail(WrittenBlock(2, 2).comp)),
      WrittenBlock(3, 4)>>

\* One block per document, two blocks more than the cache holds.
SingleDocBlock(i) == WrittenBlock(i - 1, i - 1)

BigBlocks == Tabulate(SingleDocBlock, LRU_CACHE_CAPACITY + 2)

\* The first LRU_CACHE_CAPACITY ids in order: one get each fills the cache.
WarmUpId(i) == i - 1

WarmUp == Tabulate(WarmUpId, LRU_CACHE_CAPACITY)

\* The ids the driver asks the small stores for; 5 is past the last document.
GoodIds == {0, 1, 2, 4, 5}

\* 1: the skipped record is too long, 2: the record is too short for its
\* document, 3: intact, 4: the selected record is too long.
CorruptIds == {1, 2, 3, 4}

\* 0: intact, 2: malformed compressed bytes, 3: unreadable
FaultyIds == {0, 2, 3, 5}

\* The least and the most recently used blocks after WarmUp, the two blocks
\* WarmUp leaves out, and an id past the last document.
BigIds ==
    {0, 1, LRU_CACHE_CAPACITY - 1, LRU_CACHE_CAPACITY, LRU_CACHE_CAPACITY + 1,
     LRU_CACHE_CAPACITY + 2}

GoodFile == StoreFile(GoodBlocks)

CorruptFile == StoreFile(CorruptBlocks)

FaultyFile == StoreFile(FaultyBlocks)

BigFile == StoreFile(BigBlocks)

\* The documents written to the small stores, and to the big ones.
SmallDocs == DocRange(0, 4)

BigDocs == DocRange(0, LRU_CACHE_CAPACITY + 1)

\* The first byte of the last block.
FaultyUnreadable == {BlockCheckpoints(FaultyBlocks)[3].start_offset}

BigUnreadable == {BlockCheckpoints(BigBlocks)[LRU_CACHE_CAPACITY + 2].start_offset}

GoodStore == Store("good", GoodFile, {}, SmallDocs, {}, GoodIds, TRUE, <<>>)

CorruptStore ==
    Store("corrupt", CorruptFile, {}, SmallDocs, {0, 1, 2, 4}, CorruptIds, TRUE, <<>>)

FaultyStore ==
    Store("faulty", FaultyFile, FaultyUnreadable, SmallDocs, {2, 3, 4}, FaultyIds,
          TRUE, <<>>)

\* The last block of the big stores is unreadable.
BigStore ==
    Store("big", BigFile, BigUnreadable, BigDocs, {LRU_CACHE_CAPACITY + 1},
          BigIds, FALSE, WarmUp)

\* The big store, warmed up and its first block read again.
WarmUpAndHit == WarmUp \o <<0>>

BigHitStore ==
    Store("bighit", BigFile, BigUnreadable, BigDocs, {LRU_CACHE_CAPACITY + 1},
          BigIds, FALSE, WarmUpAndHit)

\* The store two callers share: the first two blocks.
SharedIds == {0, 2}

SharedStore == Store("shared", GoodFile, {}, SmallDocs, {}, SharedIds, FALSE, <<>>)

\* The same store, for two callers whose steps are scheduled fairly.
FairStore == Store("fair", GoodFile, {}, SmallDocs, {}, SharedIds, FALSE, <<>>)

\* The store whose callers also call get_multiple: the first block, and
\* the last one, which cannot be read.
BatchIds == {0, 3}

BatchStore == Store("batch", FaultyFile, FaultyUnreadable, SmallDocs, {2, 3, 4}, BatchIds, TRUE, <<>>)

\* The big store, for a caller that gets document 0 twice and holds on to its
\* block while another caller reads LRU_CACHE_CAPACITY other blocks.
EvictId(i) == IF i <= 2 THEN 0 ELSE i - 2

EvictScript == Tabulate(EvictId, LRU_CACHE_CAPACITY + 2)

EvictStore ==
    Store("evict", BigFile, BigUnreadable, BigDocs, {LRU_CACHE_CAPACITY + 1},
          {}, FALSE, EvictScript)

\* Files whose footer is missing, short, or holds an offset past the bytes
\* that precede it; and one whose index segment is empty.
EmptyStore == Store("empty", <<>>, {}, <<>>, {}, {0}, TRUE, <<>>)

ShortStore == Store("short", <<1, 2, 3>>, {}, <<>>, {}, {0}, TRUE, <<>>)

Short7Store == Store("short7", <<0, 0, 0, 0, 0, 0, 0>>, {}, <<>>, {}, {0}, TRUE, <<>>)

BadOffsetFile ==
    SubSeq(GoodFile, 1, Len(GoodFile) - FooterLen)
        \o U64Serialize(Len(GoodFile) - FooterLen + 1)

BadOffsetStore == Store("badoffset", BadOffsetFile, {}, <<>>, {}, {0}, TRUE, <<>>)

NoIndexFile ==
    DataSegment(GoodBlocks) \o U64Serialize(Len(DataSegment(GoodBlocks)))

NoIndexStore == Store("noindex", NoIndexFile, {}, <<>>, {}, {0}, TRUE, <<>>)

StoreNames ==
    {"good", "corrupt", "faulty", "big", "bighit",
     "empty", "short", "short7", "badoffset", "noindex"}

StoreNamed(name) ==
    CASE name = "good" -> GoodStore
      [] name = "corrupt" -> CorruptStore
      [] name = "faulty" -> FaultyStore
      [] name = "big" -> BigStore
      [] name = "bighit" -> BigHitStore
      [] name = "fair" -> FairStore
      [] name = "empty" -> EmptyStore
      [] name = "short" -> ShortStore
      [] name = "short7" -> Short7Store
      [] name = "badoffset" -> BadOffsetStore
      [] name = "noindex" -> NoIndexStore
      [] name = "shared" -> SharedStore
      [] name = "batch" -> BatchStore
      [] name = "evict" -> EvictStore

(***************************************************************************)
(* The state.                                                              *)
(***************************************************************************)
VARIABLES
    store,         \* the name of the store file the reader is opened on
    reader,        \* the StoreReader: unopened, failed to open, or its fields
    cache,         \* the LruCache: <<[key, block, by]>>, least recently used
                   \* first; by (ghost) is the thread that built the block
    cache_hits,    \* AtomicUsize
    cache_misses,  \* AtomicUsize
    lock,          \* the thread holding the cache Mutex, or NoThread
    pc,            \* per thread: where it is in get / get_multiple
    th,            \* per thread: the locals of its call, its last result
    calls,         \* calls started so far, the script's not counted
    script,        \* the ids the driver still has to get, in order
    last_access    \* ghost: the key read_block was last asked for, or NoKey

vars ==
    <<store, reader, cache, cache_hits, cache_misses, lock, pc, th, calls, script,
      last_access>>

\* The store file on storage.
St == StoreNamed(store)

NoCheckpoint == Checkpoint(0, 0, 0)

NoResult == [kind |-> "None", docs |-> <<>>, id |-> 0]

\* Ok(doc) / Ok(docs)
Ok(docs) == [kind |-> "Ok", docs |-> docs, id |-> 0]

\* Mutant: the message names the first document instead of doc_id.
InvalidArgument_wrong_id(doc_id) == [kind |-> "InvalidArgument", docs |-> <<>>, id |-> 0]

\* TantivyError::InvalidArgument("Failed to lookup Doc #{doc_id}.")
InvalidArgument(doc_id) == [kind |-> "InvalidArgument", docs |-> <<>>, id |-> doc_id]

\* An io::Error, as it reaches the caller (TantivyError::IoError for get).
IoError == [kind |-> "IoError", docs |-> <<>>, id |-> 0]

\* The thread unwinds.
Panic == [kind |-> "Panic", docs |-> <<>>, id |-> 0]

\* A thread's locals before its first call.
IdleThread ==
    [op |-> "none", doc_ids |-> <<>>, next |-> 0, docs |-> <<>>, doc_id |-> 0,
     checkpoint |-> NoCheckpoint, compressed |-> <<>>, block |-> <<>>,
     result |-> NoResult,
     \* ghost: how read_block went for the call's latest get; the counters, the
     \* cache keys and last_access when that get started; the counters when the
     \* call started; the ids get was called with; the block offsets the call
     \* asked the storage for; whether that get has inserted its block, by how
     \* much the cache grew, and whose entry for the key it replaced
     looked_up |-> "no",
     snap |-> [hits |-> 0, misses |-> 0, keys |-> <<>>, last |-> NoKey],
     start |-> [hits |-> 0, misses |-> 0],
     gets |-> <<>>, prefetched |-> {}, fetched |-> {},
     put |-> [done |-> FALSE, grew |-> 0, over |-> NoThread]]

(***************************************************************************)
(* The LRU cache (lru::LruCache), least recently used first.               *)
(***************************************************************************)
CacheKeys(c) == LET KeyAt(i) == c[i].key IN Tabulate(KeyAt, Len(c))

CacheIndex(c, key) == {i \in 1..Len(c) : c[i].key = key}

Without(c, i) == SubSeq(c, 1, i - 1) \o SubSeq(c, i + 1, Len(c))

\* Mutant: a lookup that does not touch the recency order (LruCache::peek).
LruGet_peek(c, key) ==
    IF CacheIndex(c, key) = {} THEN [some |-> FALSE, block |-> <<>>, cache |-> c]
    ELSE [some |-> TRUE, block |-> c[CHOOSE j \in CacheIndex(c, key) : TRUE].block,
          cache |-> c]

\* Mutant: a lookup that puts the entry it found in again as a new entry.
LruGet_reinserts(c, key) ==
    IF CacheIndex(c, key) = {} THEN [some |-> FALSE, block |-> <<>>, cache |-> c]
    ELSE LET i == CHOOSE j \in CacheIndex(c, key) : TRUE IN
         [some |-> TRUE, block |-> c[i].block, cache |-> Append(c, c[i])]

\* LruCache::get(&key): the value, moved to most recently used.
LruGet(c, key) ==
    IF CacheIndex(c, key) = {} THEN [some |-> FALSE, block |-> <<>>, cache |-> c]
    ELSE LET i == CHOOSE j \in CacheIndex(c, key) : TRUE IN
         [some |-> TRUE, block |-> c[i].block, cache |-> Append(Without(c, i), c[i])]

\* Mutant: at capacity the most recently used entry is evicted.
LruPut_evicts_most_recent(c, key, block, by) ==
    LET e == [key |-> key, block |-> block, by |-> by] IN
    IF CacheIndex(c, key) # {}
    THEN Append(Without(c, CHOOSE j \in CacheIndex(c, key) : TRUE), e)
    ELSE IF Len(c) >= LRU_CACHE_CAPACITY THEN Append(SubSeq(c, 1, Len(c) - 1), e)
    ELSE Append(c, e)

\* Mutant: an insert that does not replace the key's entry.
LruPut_keeps_old_entry(c, key, block, by) ==
    LET e == [key |-> key, block |-> block, by |-> by] IN
    IF Len(c) >= LRU_CACHE_CAPACITY THEN Append(Tail(c), e) ELSE Append(c, e)

\* LruCache::put(key, value): replaces the key's value, or inserts it, and
\* at capacity evicts the least recently used entry first.
LruPut(c, key, block, by) ==
    LET e == [key |-> key, block |-> block, by |-> by] IN
    IF CacheIndex(c, key) # {}
    THEN Append(Without(c, CHOOSE j \in CacheIndex(c, key) : TRUE), e)
    ELSE IF Len(c) >= LRU_CACHE_CAPACITY THEN Append(Tail(c), e)
    ELSE Append(c, e)

(***************************************************************************)
(* split_file and StoreReader::open.                                       *)
(***************************************************************************)
SplitFailed == [ok |-> FALSE, data_file |-> FileSlice(0, 0), offset_index_file |-> FileSlice(0, 0)]

\* Mutant: the file is split at the offset with its footer still on.
split_file_keeps_footer(st, data) ==
    LET parts == split_from_end(data, FooterLen)
        serialized_offset == read_bytes(st, parts[2])
        offset == U64Deserialize(serialized_offset.bytes)
    IN IF ~serialized_offset.ok THEN SplitFailed
       ELSE IF ~offset.ok THEN SplitFailed
       ELSE [ok |-> TRUE,
             data_file |-> split(data, offset.val)[1],
             offset_index_file |-> split(data, offset.val)[2]]

split_file(st, data) ==
    LET parts == split_from_end(data, FooterLen)
        serialized_offset == read_bytes(st, parts[2])
        offset == U64Deserialize(serialized_offset.bytes)
    IN IF ~serialized_offset.ok THEN SplitFailed
       ELSE IF ~offset.ok THEN SplitFailed
       ELSE [ok |-> TRUE,
             data_file |-> split(parts[1], offset.val)[1],
             offset_index_file |-> split(parts[1], offset.val)[2]]

Unopened ==
    [status |-> "unopened", data |-> FileSlice(0, 0),
     skip_index |-> [num_docs |-> 0, checkpoints |-> <<>>],
     space_usage |-> [data |-> 0, index |-> 0]]

\* open failed with an io::Error
OpenFailed == [Unopened EXCEPT !.status = "IoError"]

\* Mutant: a failed read of the index segment is taken for an empty index.
open_ignores_failed_read(st) ==
    LET parts == split_file(st, FileSlice(0, Len(st.file)))
        index_data == read_bytes(st, parts.offset_index_file)
    IN IF ~parts.ok THEN OpenFailed
       ELSE [status |-> "ok",
             data |-> parts.data_file,
             skip_index |-> SkipIndexOpen(index_data.bytes),
             space_usage |-> [data |-> SliceLen(parts.data_file),
                              index |-> SliceLen(parts.offset_index_file)]]

\* Mutant: StoreSpaceUsage::new is given the two lengths the wrong way round.
open_space_usage_swapped(st) ==
    LET parts == split_file(st, FileSlice(0, Len(st.file)))
        index_data == read_bytes(st, parts.offset_index_file)
    IN IF ~parts.ok THEN OpenFailed
       ELSE IF ~index_data.ok THEN OpenFailed
       ELSE [status |-> "ok",
             data |-> parts.data_file,
             skip_index |-> SkipIndexOpen(index_data.bytes),
             space_usage |-> [data |-> SliceLen(parts.offset_index_file),
                              index |-> SliceLen(parts.data_file)]]

open(st) ==
    LET parts == split_file(st, FileSlice(0, Len(st.file)))
        index_data == read_bytes(st, parts.offset_index_file)
    IN IF ~parts.ok THEN OpenFailed
       ELSE IF ~index_data.ok THEN OpenFailed
       ELSE [status |-> "ok",
             data |-> parts.data_file,
             skip_index |-> SkipIndexOpen(index_data.bytes),
             space_usage |-> [data |-> SliceLen(parts.data_file),
                              index |-> SliceLen(parts.offset_index_file)]]

\* StoreReader::space_usage: a clone of the value computed at open
space_usage == reader.space_usage

\* StoreReader::block_checkpoint
block_checkpoint(doc_id) == SkipIndexSeek(reader.skip_index, doc_id)

\* StoreReader::compressed_block
compressed_block(checkpoint) ==
    read_bytes(St, slice(reader.data, checkpoint.start_offset, checkpoint.end_offset))

(***************************************************************************)
(* The document extractor of get: skip doc_id - start_doc records, read    *)
(* one.  Indexing a slice past its end panics.                             *)
(***************************************************************************)
RECURSIVE SkipRecords(_, _)
SkipRecords(cursor, n) ==
    IF n <= 0 THEN [kind |-> "Ok", cursor |-> cursor]
    ELSE LET doc_length == VIntDeserialize(cursor) IN
         IF ~doc_length.ok THEN [kind |-> "IoError", cursor |-> <<>>]
         ELSE IF doc_length.val > Len(doc_length.rest)
         THEN [kind |-> "Panic", cursor |-> <<>>]
         ELSE SkipRecords(SubSeq(doc_length.rest, doc_length.val + 1,
                                 Len(doc_length.rest)), n - 1)

\* The walk, given the number of records to skip.
ExtractAfter(block, skip) ==
    LET skipped == SkipRecords(block, skip)
        doc_length == VIntDeserialize(skipped.cursor)
        doc == DocumentDeserialize(SubSeq(doc_length.rest, 1, doc_length.val))
    IN IF skipped.kind = "Panic" THEN Panic
       ELSE IF skipped.kind = "IoError" THEN IoError
       ELSE IF ~doc_length.ok THEN IoError
       ELSE IF doc_length.val > Len(doc_length.rest) THEN Panic
       ELSE IF ~doc.ok THEN IoError
       ELSE Ok(<<doc.doc>>)

\* Mutant: the range of the skip loop is start_doc..=doc_id.
extract_skip_one_more(block, checkpoint, doc_id) ==
    ExtractAfter(block, doc_id - checkpoint.start_doc + 1)

extract(block, checkpoint, doc_id) ==
    ExtractAfter(block, doc_id - checkpoint.start_doc)

(***************************************************************************)
(* Initial states: a store file on storage, no reader yet, idle threads.   *)
(***************************************************************************)
InitWith(names, threads) ==
    /\ store \in names
    /\ reader = Unopened
    /\ cache = <<>>
    /\ cache_hits = 0
    /\ cache_misses = 0
    /\ lock = NoThread
    /\ pc = [t \in threads |-> "idle"]
    /\ th = [t \in threads |-> IdleThread]
    /\ calls = 0
    /\ script = St.script
    /\ last_access = NoKey

Threads == DOMAIN pc

(***************************************************************************)
(* StoreReader::open(store_file)                                           *)
(***************************************************************************)
Open ==
    /\ reader.status = "unopened"
    /\ reader' = open(St)
    /\ UNCHANGED <<store, cache, cache_hits, cache_misses, lock, pc, th, calls, script, last_access>>

(***************************************************************************)
(* get and get_multiple, step by step.                                     *)
(***************************************************************************)
\* The locals of a thread entering get(doc_id).
BeginGet(s, doc_id) ==
    [s EXCEPT !.doc_id = doc_id, !.checkpoint = NoCheckpoint,
              !.compressed = <<>>, !.block = <<>>, !.looked_up = "no",
              !.snap = [hits |-> cache_hits, misses |-> cache_misses,
                        keys |-> CacheKeys(cache), last |-> last_access],
              !.gets = Append(@, doc_id),
              !.put = [done |-> FALSE, grew |-> 0, over |-> NoThread]]

\* get returns r and the caller takes it: the thread's caller, or the
\* collect of get_multiple, which goes on to the next id while `more`.
Returns(t, r, more) ==
    LET s == th[t] IN
    IF s.op = "get_multiple" /\ more /\ s.next < Len(s.doc_ids)
    THEN /\ th' = [th EXCEPT ![t] =
                     BeginGet([s EXCEPT !.docs = @ \o r.docs, !.next = @ + 1],
                              s.doc_ids[s.next + 1])]
         /\ pc' = [pc EXCEPT ![t] = "seek"]
    ELSE /\ th' = [th EXCEPT ![t] =
                     [s EXCEPT !.docs = <<>>, !.compressed = <<>>, !.block = <<>>,
                               !.result = IF r.kind = "Ok" THEN Ok(s.docs \o r.docs)
                                          ELSE r]]
         /\ pc' = [pc EXCEPT ![t] = "idle"]

\* Mutant: the collect skips the ids that fail and returns the rest.
GetReturns_skip_errors(t, r) ==
    Returns(t, IF r.kind = "Panic" \/ th[t].op = "get" \/ th[t].next = Len(th[t].doc_ids)
               THEN r ELSE Ok(r.docs), TRUE)

\* get returns r: collect() into a Result stops at the first error.
GetReturns(t, r) == Returns(t, r, r.kind = "Ok")

\* The locals of a thread entering a call.
BeginCall(op, doc_ids) ==
    [IdleThread EXCEPT !.op = op, !.doc_ids = doc_ids,
                       !.start = [hits |-> cache_hits, misses |-> cache_misses]]

\* The driver's choice of ids: the script's next id while there is a script.
NextIds == IF script # <<>> THEN {Head(script)} ELSE St.ids

IdLists == UNION {[1..n -> St.ids] : n \in 0..MaxIds}

\* The caller of the script's next get: the first caller for the gets of the
\* script's first id, the last caller for the others.
ScriptCaller ==
    IF Head(script) = St.script[1]
    THEN CHOOSE t \in Threads : \A u \in Threads : t <= u
    ELSE CHOOSE t \in Threads : \A u \in Threads : t >= u

\* The number of calls the driver makes once the script has run.
CallsLimit ==
    IF Cardinality(Threads) > 1 /\ (St.batches \/ store = "fair")
    THEN MaxSharedCalls
    ELSE MaxCalls

\* A caller starts get(doc_id).
CallGet(t) ==
    /\ pc[t] = "idle"
    /\ reader.status = "ok"
    /\ IF script # <<>>
       THEN t = ScriptCaller /\ calls' = calls /\ script' = Tail(script)
       ELSE calls < CallsLimit /\ calls' = calls + 1 /\ script' = script
    /\ \E doc_id \in NextIds :
          th' = [th EXCEPT ![t] =
                   BeginGet([BeginCall("get", <<doc_id>>) EXCEPT !.next = 1], doc_id)]
    /\ pc' = [pc EXCEPT ![t] = "seek"]
    /\ UNCHANGED <<store, reader, cache, cache_hits, cache_misses, lock, last_access>>

\* A caller starts get_multiple(doc_ids).
CallGetMultiple(t) ==
    /\ pc[t] = "idle"
    /\ reader.status = "ok"
    /\ St.batches
    /\ script = <<>>
    /\ calls < CallsLimit
    /\ calls' = calls + 1
    /\ \E doc_ids \in IdLists :
          th' = [th EXCEPT ![t] = BeginCall("get_multiple", doc_ids)]
    /\ pc' = [pc EXCEPT ![t] = "prefetch"]
    /\ UNCHANGED <<store, reader, cache, cache_hits, cache_misses, lock, script, last_access>>

\* The checkpoints of the ids that have one, in input order (flat_map).
RECURSIVE ResolvedCheckpoints(_)
ResolvedCheckpoints(doc_ids) ==
    IF doc_ids = <<>> THEN <<>>
    ELSE LET c == block_checkpoint(Head(doc_ids)) IN
         (IF c.some THEN <<c.checkpoint>> ELSE <<>>)
         \o ResolvedCheckpoints(Tail(doc_ids))

\* cache_blocks_multiple(checkpoints)
cache_blocks_multiple(checkpoints) ==
    read_bytes_slice_multiple(St, reader.data,
        [i \in 1..Len(checkpoints) |->
            <<checkpoints[i].start_offset, checkpoints[i].end_offset>>])

\* get_multiple up to its first get: resolve, prefetch, `?`.
Prefetch(t) ==
    LET s == th[t]
        checkpoints == ResolvedCheckpoints(s.doc_ids)
        p == [s EXCEPT !.prefetched =
                 {checkpoints[i].start_offset : i \in 1..Len(checkpoints)}]
    IN /\ pc[t] = "prefetch"
       /\ IF ~cache_blocks_multiple(checkpoints)
          THEN /\ th' = [th EXCEPT ![t] = [p EXCEPT !.result = IoError]]
               /\ pc' = [pc EXCEPT ![t] = "idle"]
          ELSE IF s.doc_ids = <<>>
          THEN /\ th' = [th EXCEPT ![t] = [p EXCEPT !.result = Ok(<<>>)]]
               /\ pc' = [pc EXCEPT ![t] = "idle"]
          ELSE /\ th' = [th EXCEPT ![t] = BeginGet([p EXCEPT !.next = 1], s.doc_ids[1])]
               /\ pc' = [pc EXCEPT ![t] = "seek"]
       /\ UNCHANGED <<store, reader, cache, cache_hits, cache_misses, lock, calls, script, last_access>>

\* Mutant: an id without a checkpoint is counted as a miss before get fails.
Seek_counts_miss(t) ==
    LET c == block_checkpoint(th[t].doc_id) IN
    /\ pc[t] = "seek"
    /\ IF ~c.some
       THEN /\ GetReturns(t, InvalidArgument(th[t].doc_id))
            /\ cache_misses' = cache_misses + 1
       ELSE /\ th' = [th EXCEPT ![t].checkpoint = c.checkpoint]
            /\ pc' = [pc EXCEPT ![t] = "lock_lookup"]
            /\ UNCHANGED cache_misses
    /\ UNCHANGED <<store, reader, cache, cache_hits, lock, calls, script, last_access>>

\* get: block_checkpoint(doc_id).ok_or_else(InvalidArgument)?
Seek(t) ==
    LET c == block_checkpoint(th[t].doc_id) IN
    /\ pc[t] = "seek"
    /\ IF ~c.some
       THEN GetReturns(t, InvalidArgument(th[t].doc_id))
       ELSE /\ th' = [th EXCEPT ![t].checkpoint = c.checkpoint]
            /\ pc' = [pc EXCEPT ![t] = "lock_lookup"]
    /\ UNCHANGED <<store, reader, cache, cache_hits, cache_misses, lock, calls, script, last_access>>

\* read_block: self.cache.lock() of the lookup
LockLookup(t) ==
    /\ pc[t] = "lock_lookup"
    /\ lock = NoThread
    /\ lock' = t
    /\ pc' = [pc EXCEPT ![t] = "lookup"]
    /\ UNCHANGED <<store, reader, cache, cache_hits, cache_misses, th, calls, script, last_access>>

\* Mutant: the guard of the lookup is kept over the miss path.
Lookup_keeps_lock_on_miss(t) ==
    LET found == LruGet(cache, th[t].checkpoint.start_offset) IN
    /\ pc[t] = "lookup"
    /\ lock = t
    /\ IF found.some
       THEN /\ lock' = NoThread
            /\ cache' = found.cache
            /\ cache_hits' = cache_hits + 1
            /\ th' = [th EXCEPT ![t].block = found.block, ![t].looked_up = "hit"]
            /\ pc' = [pc EXCEPT ![t] = "extract"]
       ELSE /\ UNCHANGED <<lock, cache, cache_hits>>
            /\ th' = [th EXCEPT ![t].looked_up = "miss"]
            /\ pc' = [pc EXCEPT ![t] = "count_miss"]
    /\ last_access' = th[t].checkpoint.start_offset
    /\ UNCHANGED <<store, reader, cache_misses, calls, script>>

\* read_block: the lookup under the lock; a hit counts, clones the handle and
\* returns; the guard is dropped either way.
Lookup(t) ==
    LET found == LruGet(cache, th[t].checkpoint.start_offset) IN
    /\ pc[t] = "lookup"
    /\ lock = t
    /\ lock' = NoThread
    /\ IF found.some
       THEN /\ cache' = found.cache
            /\ cache_hits' = cache_hits + 1
            /\ th' = [th EXCEPT ![t].block = found.block, ![t].looked_up = "hit"]
            /\ pc' = [pc EXCEPT ![t] = "extract"]
       ELSE /\ UNCHANGED <<cache, cache_hits>>
            /\ th' = [th EXCEPT ![t].looked_up = "miss"]
            /\ pc' = [pc EXCEPT ![t] = "count_miss"]
    /\ last_access' = th[t].checkpoint.start_offset
    /\ UNCHANGED <<store, reader, cache_misses, calls, script>>

\* Mutant: the miss is not counted.
CountMiss_not_counted(t) ==
    /\ pc[t] = "count_miss"
    /\ pc' = [pc EXCEPT ![t] = "read"]
    /\ UNCHANGED <<store, reader, cache, cache_hits, cache_misses, lock, th, calls,
                   script, last_access>>

\* Mutant: the counter is loaded when get starts and stored back plus one.
CountMiss_lost_update(t) ==
    /\ pc[t] = "count_miss"
    /\ cache_misses' = th[t].snap.misses + 1
    /\ pc' = [pc EXCEPT ![t] = "read"]
    /\ UNCHANGED <<store, reader, cache, cache_hits, lock, th, calls, script, last_access>>

\* read_block: cache_misses.fetch_add(1)
CountMiss(t) ==
    /\ pc[t] = "count_miss"
    /\ cache_misses' = cache_misses + 1
    /\ pc' = [pc EXCEPT ![t] = "read"]
    /\ UNCHANGED <<store, reader, cache, cache_hits, lock, th, calls, script, last_access>>

\* read_block: self.compressed_block(checkpoint)?
ReadCompressed(t) ==
    LET compressed == compressed_block(th[t].checkpoint)
        s == [th[t] EXCEPT !.fetched = @ \cup {th[t].checkpoint.start_offset}]
    IN /\ pc[t] = "read"
       /\ IF ~compressed.ok
          THEN GetReturns(t, IoError)
          ELSE /\ th' = [th EXCEPT ![t] = [s EXCEPT !.compressed = compressed.bytes]]
               /\ pc' = [pc EXCEPT ![t] = "decompress"]
       /\ UNCHANGED <<store, reader, cache, cache_hits, cache_misses, lock, calls, script, last_access>>

\* Mutant: what the codec left in the buffer is cached when it fails.
Decompress_caches_failure(t) ==
    LET decompressed == decompress(th[t].compressed) IN
    /\ pc[t] = "decompress"
    /\ th' = [th EXCEPT ![t].block = decompressed.bytes, ![t].compressed = <<>>]
    /\ pc' = [pc EXCEPT ![t] = "lock_put"]
    /\ UNCHANGED <<store, reader, cache, cache_hits, cache_misses, lock, calls, script, last_access>>

\* read_block: decompress(compressed_block, &mut decompressed_block)?
Decompress(t) ==
    LET decompressed == decompress(th[t].compressed) IN
    /\ pc[t] = "decompress"
    /\ IF ~decompressed.ok
       THEN GetReturns(t, IoError)
       ELSE /\ th' = [th EXCEPT ![t].block = decompressed.bytes, ![t].compressed = <<>>]
            /\ pc' = [pc EXCEPT ![t] = "lock_put"]
    /\ UNCHANGED <<store, reader, cache, cache_hits, cache_misses, lock, calls, script, last_access>>

\* read_block: self.cache.lock() of the insert
LockPut(t) ==
    /\ pc[t] = "lock_put"
    /\ lock = NoThread
    /\ lock' = t
    /\ pc' = [pc EXCEPT ![t] = "put"]
    /\ UNCHANGED <<store, reader, cache, cache_hits, cache_misses, th, calls, script, last_access>>

\* Mutant: the guard of the insert is never dropped.
Put_keeps_lock(t) ==
    LET key == th[t].checkpoint.start_offset
        old == CacheIndex(cache, key)
    IN /\ pc[t] = "put"
       /\ lock = t
       /\ cache' = LruPut(cache, key, th[t].block, t)
       /\ th' = [th EXCEPT ![t].put =
                    [done |-> TRUE,
                     grew |-> Len(cache') - Len(cache),
                     over |-> IF old = {} THEN NoThread
                              ELSE cache[CHOOSE i \in old : TRUE].by]]
       /\ pc' = [pc EXCEPT ![t] = "extract"]
       /\ UNCHANGED <<store, reader, cache_hits, cache_misses, lock, calls, script,
                      last_access>>

\* Mutant: the block is cached under the end offset of its range.
Put_keyed_by_end_offset(t) ==
    LET key == th[t].checkpoint.end_offset
        old == CacheIndex(cache, key)
    IN /\ pc[t] = "put"
       /\ lock = t
       /\ lock' = NoThread
       /\ cache' = LruPut(cache, key, th[t].block, t)
       /\ th' = [th EXCEPT ![t].put =
                    [done |-> TRUE,
                     grew |-> Len(cache') - Len(cache),
                     over |-> IF old = {} THEN NoThread
                              ELSE cache[CHOOSE i \in old : TRUE].by]]
       /\ pc' = [pc EXCEPT ![t] = "extract"]
       /\ UNCHANGED <<store, reader, cache_hits, cache_misses, calls, script, last_access>>

\* read_block: put(checkpoint.start_offset, block.clone()) under the lock
Put(t) ==
    LET key == th[t].checkpoint.start_offset
        old == CacheIndex(cache, key)
    IN /\ pc[t] = "put"
       /\ lock = t
       /\ lock' = NoThread
       /\ cache' = LruPut(cache, key, th[t].block, t)
       /\ th' = [th EXCEPT ![t].put =
                    [done |-> TRUE,
                     grew |-> Len(cache') - Len(cache),
                     over |-> IF old = {} THEN NoThread
                              ELSE cache[CHOOSE i \in old : TRUE].by]]
       /\ pc' = [pc EXCEPT ![t] = "extract"]
       /\ UNCHANGED <<store, reader, cache_hits, cache_misses, calls, script, last_access>>

\* get: the record walk over the block and Document::deserialize
Extract(t) ==
    /\ pc[t] = "extract"
    /\ GetReturns(t, extract(th[t].block, th[t].checkpoint, th[t].doc_id))
    /\ UNCHANGED <<store, reader, cache, cache_hits, cache_misses, lock, calls, script, last_access>>

Next ==
    \/ Open
    \/ \E t \in Threads : CallGet(t)
    \/ \E t \in Threads : CallGetMultiple(t)
    \/ \E t \in Threads : Prefetch(t)
    \/ \E t \in Threads : Seek(t)
    \/ \E t \in Threads : LockLookup(t)
    \/ \E t \in Threads : Lookup(t)
    \/ \E t \in Threads : CountMiss(t)
    \/ \E t \in Threads : ReadCompressed(t)
    \/ \E t \in Threads : Decompress(t)
    \/ \E t \in Threads : LockPut(t)
    \/ \E t \in Threads : Put(t)
    \/ \E t \in Threads : Extract(t)

\* One caller: a sequential run of calls.
Init == InitWith(StoreNames, {1})

Spec == Init /\ [][Next]_vars

(***************************************************************************)
(* What a finished call looks like.                                        *)
(***************************************************************************)
\* Thread t's last call has returned (or unwound) and no other has started.
Completed(t) == pc[t] = "idle" /\ th[t].op # "none"

CompletedGet(t) == Completed(t) /\ th[t].op = "get"

CompletedGetMultiple(t) == Completed(t) /\ th[t].op = "get_multiple"

\* The number of documents written to the store.
num_docs == Len(St.written)

\* The document written at id doc_id.
Written(doc_id) == St.written[doc_id + 1]

(***************************************************************************)
(* C1.  For every doc_id in [0, num_docs) whose block is as written,       *)
(* get(doc_id) returns exactly the document written at that id, whatever   *)
(* calls came before, served from the cache or freshly decompressed.       *)
(***************************************************************************)
C1_GetReturnsWrittenDocument ==
    \A t \in Threads :
        (/\ CompletedGet(t)
         /\ th[t].doc_id < num_docs
         /\ th[t].doc_id \notin St.damaged)
        => th[t].result = Ok(<<Written(th[t].doc_id)>>)

\* A get of the second document of a block, served from the cache.
C1_Witness ==
    /\ CompletedGet(1)
    /\ th[1].doc_id = 1
    /\ th[1].looked_up = "hit"
    /\ th[1].result = Ok(<<Doc(1)>>)

(***************************************************************************)
(* C2.  For every doc_id >= num_docs, get(doc_id) returns the invalid-     *)
(* argument error naming that id: no panic, no document, on every call.    *)
(***************************************************************************)
C2_GetPastEndIsInvalidArgument ==
    \A t \in Threads :
        (CompletedGet(t) /\ th[t].doc_id >= num_docs)
        => /\ th[t].result.kind = "InvalidArgument"
           /\ th[t].result.id = th[t].doc_id
           /\ th[t].result.docs = <<>>

\* The error, returned by a reader whose cache holds blocks of earlier gets.
C2_Witness ==
    /\ CompletedGet(1)
    /\ th[1].doc_id = 5
    /\ th[1].result.kind = "InvalidArgument"
    /\ th[1].result.id = 5
    /\ cache # <<>>
    /\ calls = MaxCalls

(***************************************************************************)
(* What get returns on its own: the outcome of get(doc_id) on a reader     *)
(* that has nothing cached.  GetIsFreshGet says that every get returns     *)
(* just that, whatever the cache holds.                                    *)
(***************************************************************************)
FreshGet(doc_id) ==
    LET c == block_checkpoint(doc_id)
        compressed == compressed_block(c.checkpoint)
        decompressed == decompress(compressed.bytes)
    IN IF ~c.some THEN [kind |-> "InvalidArgument", docs |-> <<>>, id |-> doc_id]
       ELSE IF ~compressed.ok \/ ~decompressed.ok THEN IoError
       ELSE ExtractAfter(decompressed.bytes, doc_id - c.checkpoint.start_doc)

GetIsFreshGet ==
    \A t \in Threads : CompletedGet(t) => th[t].result = FreshGet(th[t].doc_id)

\* The outcome of get on each id in turn, collected: the first error, or all
\* the documents.
RECURSIVE SeparateGets(_)
SeparateGets(doc_ids) ==
    IF doc_ids = <<>> THEN Ok(<<>>)
    ELSE LET r == FreshGet(Head(doc_ids))
             rest == SeparateGets(Tail(doc_ids))
         IN IF r.kind # "Ok" THEN r
            ELSE IF rest.kind # "Ok" THEN rest
            ELSE Ok(r.docs \o rest.docs)

\* The index of the first id whose get fails, 0 when none does.
FirstFailing(doc_ids) ==
    LET failing == {i \in 1..Len(doc_ids) : FreshGet(doc_ids[i]).kind # "Ok"} IN
    IF failing = {} THEN 0 ELSE CHOOSE i \in failing : \A j \in failing : i <= j

\* The block offsets of the ids among doc_ids[lo..hi] that have a checkpoint.
BlocksOf(doc_ids, lo, hi) ==
    {block_checkpoint(doc_ids[i]).checkpoint.start_offset :
        i \in {j \in lo..hi : block_checkpoint(doc_ids[j]).some}}

\* Whether the prefetch read of get_multiple(doc_ids) succeeds.
PrefetchReads(doc_ids) ==
    \A i \in 1..Len(doc_ids) :
        block_checkpoint(doc_ids[i]).some
        => compressed_block(block_checkpoint(doc_ids[i]).checkpoint).ok

(***************************************************************************)
(* C3.  get_multiple(ids) has the outcome of get on each id separately,    *)
(* in input order: the same documents in the same order, or the error of   *)
(* the first get that fails.                                               *)
(***************************************************************************)
C3_GetMultipleIsSeparateGets ==
    \A t \in Threads :
        CompletedGetMultiple(t) => th[t].result = SeparateGets(th[t].doc_ids)

(***************************************************************************)
(* C4 as claimed.  A failing get_multiple returns an error and no          *)
(* documents, has called get on the ids up to the first failing one and    *)
(* on no id after it, and has read no block of the ids after it.           *)
(***************************************************************************)
C4_StopsAtFirstFailingIdReadingNothingAfter ==
    \A t \in Threads :
        (CompletedGetMultiple(t) /\ th[t].result.kind # "Ok")
        => LET ids == th[t].doc_ids
               k == FirstFailing(ids)
           IN /\ th[t].result.docs = <<>>
              /\ th[t].gets = SubSeq(ids, 1, k)
              /\ (th[t].prefetched \cup th[t].fetched)
                    \cap (BlocksOf(ids, k + 1, Len(ids)) \ BlocksOf(ids, 1, k)) = {}

(***************************************************************************)
(* C4, amended.  get_multiple first reads the byte ranges of all the ids   *)
(* that have a checkpoint (ids without one are dropped from this prefetch  *)
(* only).  If that read fails, the batch fails with its I/O error before   *)
(* get is called on any id.  Otherwise get is called on the ids in input   *)
(* order up to the first failing one, whose error (or panic) is the        *)
(* batch's outcome with no documents; no id after it is passed to get: no  *)
(* block is fetched for them and the counters count one lookup per id      *)
(* that was passed to get and has a checkpoint.                            *)
(***************************************************************************)
C4_FailFastAfterPrefetch ==
    \A t \in Threads :
        CompletedGetMultiple(t)
        => LET ids == th[t].doc_ids
               k == FirstFailing(ids)
               n == IF k = 0 THEN Len(ids) ELSE k
           IN /\ th[t].prefetched = BlocksOf(ids, 1, Len(ids))
              /\ th[t].result.kind # "Ok" => th[t].result.docs = <<>>
              /\ IF ~PrefetchReads(ids)
                 THEN /\ th[t].result = IoError
                      /\ th[t].gets = <<>>
                      /\ th[t].fetched = {}
                      /\ cache_hits = th[t].start.hits
                      /\ cache_misses = th[t].start.misses
                 ELSE /\ th[t].gets = SubSeq(ids, 1, n)
                      /\ th[t].result.kind = "Ok" <=> k = 0
                      /\ k > 0 => th[t].result = FreshGet(ids[k])
                      /\ th[t].fetched \subseteq BlocksOf(ids, 1, n)
                      /\ (cache_hits - th[t].start.hits)
                            + (cache_misses - th[t].start.misses)
                         = Cardinality({i \in 1..n : block_checkpoint(ids[i]).some})

\* A batch whose first id has no checkpoint: its block-less id fails in get,
\* the second id was prefetched and never looked up.
C4_Witness ==
    /\ CompletedGetMultiple(1)
    /\ th[1].doc_ids = <<5, 0>>
    /\ th[1].result.kind = "InvalidArgument"
    /\ th[1].result.id = 5
    /\ th[1].gets = <<5>>
    /\ th[1].prefetched # {}
    /\ th[1].fetched = {}

(***************************************************************************)
(* One get's view of read_block: the thread's latest get had a checkpoint  *)
(* and its read_block has returned (or failed), for key its block's start  *)
(* offset, from the cache keys, counters and sizes of snap at its start.   *)
(***************************************************************************)
ReadBlockDone(t) ==
    /\ th[t].looked_up # "no"
    /\ pc[t] \in {"extract", "idle"}

KeyOf(t) == th[t].checkpoint.start_offset

WasCached(t) == \E i \in 1..Len(th[t].snap.keys) : th[t].snap.keys[i] = KeyOf(t)

\* read_block returned the block: the read and the decompression succeeded.
GotBlock(t) == th[t].looked_up = "hit" \/ th[t].put.done

\* The decompressed contents of the block that starts at offset key.
BlockAt(key) ==
    LET cps == reader.skip_index.checkpoints
        at == CHOOSE i \in 1..Len(cps) : cps[i].start_offset = key
    IN decompress(compressed_block(cps[at]).bytes).bytes

\* A sequence of keys without the key.
KeysWithout(keys, key) ==
    LET at == CHOOSE i \in 1..Len(keys) : keys[i] = key IN
    SubSeq(keys, 1, at - 1) \o SubSeq(keys, at + 1, Len(keys))

(***************************************************************************)
(* C5.  In a sequential run, a get of a valid id whose block is not cached *)
(* adds exactly 1 to cache_misses, leaves cache_hits alone and grows the   *)
(* cache by at most 1, never above 100 entries; a get whose block is       *)
(* cached adds exactly 1 to cache_hits and leaves cache_misses, the cache  *)
(* size and the key set alone.  A freshly opened reader has an empty       *)
(* cache, 0 hits and 0 misses.                                             *)
(***************************************************************************)
C5_CountersAndSizePerGet ==
    /\ \A t \in Threads :
          ReadBlockDone(t)
          => LET old == th[t].snap IN
             IF ~WasCached(t)
             THEN /\ cache_misses = old.misses + 1
                  /\ cache_hits = old.hits
                  /\ Len(cache) >= Len(old.keys)
                  /\ Len(cache) <= Len(old.keys) + 1
                  /\ Len(cache) <= LRU_CACHE_CAPACITY
             ELSE /\ cache_hits = old.hits + 1
                  /\ cache_misses = old.misses
                  /\ Len(cache) = Len(old.keys)
                  /\ {cache[i].key : i \in 1..Len(cache)}
                        = {old.keys[i] : i \in 1..Len(old.keys)}
    /\ (reader.status = "ok" /\ \A t \in Threads : th[t].op = "none")
       => cache = <<>> /\ cache_hits = 0 /\ cache_misses = 0

\* A miss with the cache full: counted, and the size stays at the capacity.
C5_Witness ==
    /\ CompletedGet(1)
    /\ th[1].doc_id = LRU_CACHE_CAPACITY
    /\ ~WasCached(1)
    /\ Len(th[1].snap.keys) = LRU_CACHE_CAPACITY
    /\ Len(cache) = LRU_CACHE_CAPACITY
    /\ cache_misses = LRU_CACHE_CAPACITY + 1
    /\ cache_hits = 0

(***************************************************************************)
(* C6 as claimed.  With 100 entries cached, a get of a block that is not   *)
(* cached evicts the least recently used entry and inserts the new block,  *)
(* the size staying 100; and a get of the block that was accessed most     *)
(* recently is served from the cache without a miss being counted.         *)
(***************************************************************************)
C6_EvictsLruAndLastAccessedIsCached ==
    \A t \in Threads :
        ReadBlockDone(t)
        => /\ (~WasCached(t) /\ Len(th[t].snap.keys) = LRU_CACHE_CAPACITY)
              => CacheKeys(cache) = Append(Tail(th[t].snap.keys), KeyOf(t))
           /\ KeyOf(t) = th[t].snap.last
              => th[t].looked_up = "hit" /\ cache_misses = th[t].snap.misses

(***************************************************************************)
(* C6, amended.  In a sequential run, with 100 entries cached, a get of a  *)
(* block that is not cached and whose read and decompression succeed       *)
(* evicts exactly the least recently used entry and inserts the new block  *)
(* as the most recently used one, the size staying 100; when the read or   *)
(* the decompression fails, nothing is evicted or inserted.  A get of the  *)
(* block that is the most recently used cache entry (the block of the      *)
(* latest lookup hit or insert) is served from the cache without a miss    *)
(* being counted.                                                          *)
(***************************************************************************)
C6_EvictsLruWhenBlockIsRead ==
    \A t \in Threads :
        ReadBlockDone(t)
        => LET old == th[t].snap IN
           /\ (~WasCached(t) /\ Len(old.keys) = LRU_CACHE_CAPACITY)
              => IF GotBlock(t)
                 THEN CacheKeys(cache) = Append(Tail(old.keys), KeyOf(t))
                 ELSE CacheKeys(cache) = old.keys
           /\ (old.keys # <<>> /\ KeyOf(t) = old.keys[Len(old.keys)])
              => th[t].looked_up = "hit" /\ cache_misses = old.misses

\* The 101st block is read with the first 100 cached: block 0 is evicted.
C6_Witness ==
    /\ CompletedGet(1)
    /\ th[1].doc_id = LRU_CACHE_CAPACITY
    /\ th[1].put.done
    /\ Len(th[1].snap.keys) = LRU_CACHE_CAPACITY
    /\ th[1].snap.keys[1] = block_checkpoint(0).checkpoint.start_offset
    /\ CacheIndex(cache, block_checkpoint(0).checkpoint.start_offset) = {}
    /\ cache[LRU_CACHE_CAPACITY].key = KeyOf(1)
    /\ Len(cache) = LRU_CACHE_CAPACITY

(***************************************************************************)
(* C7.  A hit refreshes recency: after a get that hits block b, b is the   *)
(* most recently used entry and the other entries keep their order, so     *)
(* the least recently used entry is the least recently accessed of the     *)
(* others.  A miss that inserts a block below capacity leaves the least    *)
(* recently used entry what it was.                                        *)
(***************************************************************************)
C7_HitRefreshesRecency ==
    \A t \in Threads :
        ReadBlockDone(t)
        => LET old == th[t].snap IN
           /\ WasCached(t)
              => CacheKeys(cache) = Append(KeysWithout(old.keys, KeyOf(t)), KeyOf(t))
           /\ (~WasCached(t) /\ GotBlock(t) /\ Len(old.keys) < LRU_CACHE_CAPACITY)
              => /\ CacheKeys(cache) = Append(old.keys, KeyOf(t))
                 /\ old.keys # <<>> => cache[1].key = old.keys[1]

\* Blocks A and B inserted, then A read again: the least recently used entry
\* was A and is B; 2 entries, 1 hit, 2 misses.
C7_Witness ==
    /\ CompletedGet(1)
    /\ th[1].doc_id = 0
    /\ th[1].looked_up = "hit"
    /\ th[1].snap.keys = <<block_checkpoint(0).checkpoint.start_offset,
                           block_checkpoint(2).checkpoint.start_offset>>
    /\ CacheKeys(cache) = <<block_checkpoint(2).checkpoint.start_offset,
                            block_checkpoint(0).checkpoint.start_offset>>
    /\ cache_hits = 1
    /\ cache_misses = 2

(***************************************************************************)
(* Two callers sharing the reader: any interleaving of their steps.        *)
(***************************************************************************)
InitConc == InitWith({"shared"}, {1, 2})

\* The callers of the shared reader call get only.
NextConc ==
    \/ Open
    \/ \E t \in Threads : CallGet(t)
    \/ \E t \in Threads : Seek(t)
    \/ \E t \in Threads : LockLookup(t)
    \/ \E t \in Threads : Lookup(t)
    \/ \E t \in Threads : CountMiss(t)
    \/ \E t \in Threads : ReadCompressed(t)
    \/ \E t \in Threads : Decompress(t)
    \/ \E t \in Threads : LockPut(t)
    \/ \E t \in Threads : Put(t)
    \/ \E t \in Threads : Extract(t)

SpecConc == InitConc /\ [][NextConc]_vars

\* The two callers of get, also on the big store: there the first caller
\* holds on to a block while the second fills the cache.
InitEvict == InitWith({"shared", "evict"}, {1, 2})

SpecEvict == InitEvict /\ [][NextConc]_vars

\* Two callers of get and get_multiple on a store with a failing block, and
\* the two callers of the big store.
InitShared == InitWith({"batch", "evict"}, {1, 2})

SpecShared == InitShared /\ [][Next]_vars

\* Both threads' latest gets missed on the same block and both have inserted.
BothInserted(t, u) ==
    /\ t # u
    /\ th[t].looked_up = "miss" /\ th[t].put.done
    /\ th[u].looked_up = "miss" /\ th[u].put.done
    /\ KeyOf(t) = KeyOf(u)

(***************************************************************************)
(* C8.  Under any interleaving of concurrent calls the cache holds at most *)
(* one entry per block start offset, and each entry holds the decompressed *)
(* contents of its block.  When two threads miss on the same block and     *)
(* both insert, one entry for the block remains, the last writer's, and    *)
(* the two inserts grew the cache by one entry, not two.                   *)
(***************************************************************************)
C8_OneEntryPerBlock ==
    /\ \A i, j \in 1..Len(cache) : cache[i].key = cache[j].key => i = j
    /\ \A i \in 1..Len(cache) : cache[i].block = BlockAt(cache[i].key)
    /\ \A t, u \in Threads :
          (BothInserted(t, u) /\ th[t].put.over = u)
          => /\ Cardinality(CacheIndex(cache, KeyOf(t))) = 1
             /\ \A i \in CacheIndex(cache, KeyOf(t)) : cache[i].by = t
             /\ th[u].put.over = NoThread
             /\ th[u].put.grew = 1
             /\ th[t].put.grew = 0

\* Both threads missed on the first block and inserted it, thread 1 first:
\* one entry, thread 2's.
C8_Witness ==
    /\ BothInserted(1, 2)
    /\ th[2].put.over = 1
    /\ Len(cache) = 1
    /\ cache[1].by = 2
    /\ cache_misses = 2
    /\ cache_hits = 0

(***************************************************************************)
(* A length prefix on get's way through the block that exceeds the bytes   *)
(* left: the lengths of the n records to skip, then the selected one's.    *)
(***************************************************************************)
RECURSIVE CursorOverruns(_, _)
CursorOverruns(cursor, n) ==
    LET doc_length == VIntDeserialize(cursor) IN
    IF ~doc_length.ok THEN FALSE
    ELSE IF doc_length.val > Len(doc_length.rest) THEN TRUE
    ELSE IF n = 0 THEN FALSE
    ELSE CursorOverruns(SubSeq(doc_length.rest, doc_length.val + 1,
                               Len(doc_length.rest)), n - 1)

(***************************************************************************)
(* C9.  When a length prefix of a decompressed block would take the record *)
(* cursor past the end of the block, get returns an error to the caller:   *)
(* it does not panic and returns no document.                              *)
(***************************************************************************)
C9_CorruptLengthIsAnError ==
    \A t \in Threads :
        (/\ CompletedGet(t)
         /\ GotBlock(t)
         /\ CursorOverruns(BlockAt(KeyOf(t)), th[t].doc_id - th[t].checkpoint.start_doc))
        => th[t].result = IoError

(***************************************************************************)
(* C10.  open on a file shorter than its 8-byte footer, or whose footer    *)
(* holds an offset larger than the number of bytes before the footer,      *)
(* returns an I/O error: no panic, no reader.                              *)
(***************************************************************************)
BadFooter(file) ==
    \/ Len(file) < FooterLen
    \/ LittleEndianValue(SubSeq(file, Len(file) - FooterLen + 1, Len(file)))
          > Len(file) - FooterLen

C10_OpenFailsOnBadFooter ==
    (BadFooter(St.file) /\ reader.status # "unopened")
    => /\ reader = OpenFailed
       /\ \A t \in Threads : pc[t] = "idle" /\ th[t] = IdleThread

\* The footer offset is one more than the bytes before the footer.
C10_Witness ==
    /\ store = "badoffset"
    /\ BadFooter(St.file)
    /\ Len(St.file) >= FooterLen
    /\ reader.status = "IoError"

(***************************************************************************)
(* The file as open sees it: its length and the value of its footer.       *)
(***************************************************************************)
file_len == Len(St.file)

FooterValue == LittleEndianValue(SubSeq(St.file, file_len - FooterLen + 1, file_len))

WholeFile == FileSlice(0, file_len)

\* open has returned the reader and no call has been made on it yet.
JustOpened == reader.status = "ok" /\ \A t \in Threads : th[t].op = "none"

(***************************************************************************)
(* C11 as claimed.  For a file of length file_len whose 8-byte footer      *)
(* holds offset, open splits the file into the data segment [0, offset)    *)
(* and the index segment [offset, file_len).                               *)
(***************************************************************************)
C11_IndexSegmentRunsToEndOfFile ==
    JustOpened
    => /\ split_file(St, WholeFile).data_file = FileSlice(0, FooterValue)
       /\ split_file(St, WholeFile).offset_index_file = FileSlice(FooterValue, file_len)
       /\ reader.data = FileSlice(0, FooterValue)
       /\ space_usage.index = file_len - FooterValue

(***************************************************************************)
(* C11, amended.  For a file of length file_len whose 8-byte footer holds  *)
(* offset, open splits the file into the data segment [0, offset) and the  *)
(* index segment [offset, file_len - 8): the footer belongs to neither.    *)
(* The reader keeps the data segment and builds its skip index from the    *)
(* bytes of the index segment.                                             *)
(***************************************************************************)
C11_SplitAtFooterOffset ==
    JustOpened
    => /\ split_file(St, WholeFile).ok
       /\ split_file(St, WholeFile).data_file = FileSlice(0, FooterValue)
       /\ split_file(St, WholeFile).offset_index_file
             = FileSlice(FooterValue, file_len - FooterLen)
       /\ reader.data = FileSlice(0, FooterValue)
       /\ reader.skip_index
             = SkipIndexOpen(SubSeq(St.file, FooterValue + 1, file_len - FooterLen))
       /\ space_usage.index = file_len - FooterLen - FooterValue

\* The intact store of three blocks, opened: data and index both non-empty.
C11_Witness ==
    /\ store = "good"
    /\ JustOpened
    /\ reader.data = FileSlice(0, Len(DataSegment(GoodBlocks)))
    /\ FooterValue = Len(DataSegment(GoodBlocks))
    /\ FooterValue > 0
    /\ file_len - FooterLen - FooterValue > 0
    /\ Len(reader.skip_index.checkpoints) = Len(GoodBlocks)

(***************************************************************************)
(* C12.  space_usage() returns the same value in every state of the        *)
(* reader's life, whatever get and get_multiple calls, successful or       *)
(* failing, came in between: the byte length of the data segment and the   *)
(* byte length of the index segment as split at open.                      *)
(***************************************************************************)
C12_SpaceUsageIsConstant ==
    reader.status = "ok"
    => /\ space_usage.data = FooterValue
       /\ space_usage.index = file_len - FooterLen - FooterValue
       /\ space_usage.data + space_usage.index + FooterLen = file_len

\* After a get that failed on an unreadable block and a get that succeeded.
C12_Witness ==
    /\ store = "faulty"
    /\ calls = MaxCalls
    /\ CompletedGet(1)
    /\ th[1].result = IoError
    /\ cache # <<>>
    /\ cache_misses >= 2
    /\ space_usage = [data |-> Len(DataSegment(FaultyBlocks)),
                      index |-> file_len - FooterLen - Len(DataSegment(FaultyBlocks))]

(***************************************************************************)
(* C13.  A thread holds the cache lock exactly while it is at the lookup   *)
(* (with the hit count and the clone of the handle) or at the insert of    *)
(* read_block: never while it counts the miss, reads the compressed range  *)
(* or decompresses, so the lock is released between lookup and insert.     *)
(***************************************************************************)
C13_LockHeldOnlyForLookupAndInsert ==
    /\ \A t \in Threads : lock = t <=> pc[t] \in {"lookup", "put"}
    /\ \A t \in Threads :
          pc[t] \in {"count_miss", "read", "decompress", "lock_put"} => lock # t
    /\ lock \in Threads \cup {NoThread}

\* Thread 1 decompresses its block while thread 2 is inside its lookup.
C13_Witness ==
    /\ pc[1] = "decompress"
    /\ th[1].compressed # <<>>
    /\ pc[2] = "lookup"
    /\ lock = 2

(***************************************************************************)
(* Two threads whose latest gets both missed on the same block and have    *)
(* both counted their miss.                                                *)
(***************************************************************************)
RacingMisses(t, u) ==
    /\ t # u
    /\ th[t].looked_up = "miss" /\ pc[t] # "count_miss"
    /\ th[u].looked_up = "miss" /\ pc[u] # "count_miss"
    /\ KeyOf(t) = KeyOf(u)

\* Thread t has the decompressed block in hand, built by itself.
Decompressed(t) ==
    th[t].looked_up = "miss" /\ (pc[t] \in {"lock_put", "put"} \/ th[t].put.done)

(***************************************************************************)
(* C14.  Two gets that race on the same uncached block both miss and are   *)
(* both counted: cache_misses goes up by 2 for the one block, and each     *)
(* thread that missed reads and decompresses the block itself, whatever    *)
(* the other has done meanwhile.  (The witness is the interleaving: two    *)
(* misses and two decompressions for one distinct block inserted.)         *)
(***************************************************************************)
C14_RacingMissesAreBothCounted ==
    /\ \A t, u \in Threads :
          RacingMisses(t, u)
          => LET least == IF th[t].snap.misses <= th[u].snap.misses
                          THEN th[t].snap.misses ELSE th[u].snap.misses
             IN cache_misses >= least + 2
    /\ \A t \in Threads :
          Decompressed(t)
          => /\ KeyOf(t) \in th[t].fetched
             /\ pc[t] \in {"lock_put", "put", "extract"} => th[t].block = BlockAt(KeyOf(t))

\* Both threads called get(0) on the fresh reader, both missed, both read and
\* decompressed block 0 and both returned: 2 misses, 1 block in the cache.
C14_Witness ==
    /\ CompletedGet(1) /\ CompletedGet(2)
    /\ calls = 2
    /\ th[1].doc_id = 0 /\ th[2].doc_id = 0
    /\ RacingMisses(1, 2)
    /\ Decompressed(1) /\ Decompressed(2)
    /\ th[1].fetched = {KeyOf(1)} /\ th[2].fetched = {KeyOf(2)}
    /\ cache_misses = 2
    /\ cache_hits = 0
    /\ Len(cache) = 1
    /\ cache_misses > Len(cache)

(***************************************************************************)
(* C15.  Under any interleaving of concurrent gets, every get of a valid   *)
(* id returns the document a lone get of that id on a fresh reader         *)
(* returns (the written document when the block is as written), and the    *)
(* block a caller has in hand for extraction is the decompressed block of  *)
(* its checkpoint, also after another thread's insert has evicted that     *)
(* block from the cache.                                                   *)
(***************************************************************************)
C15_ConcurrentGetsReturnTheDocument ==
    \A t \in Threads :
        /\ pc[t] = "extract" => th[t].block = BlockAt(KeyOf(t))
        /\ (CompletedGet(t) /\ th[t].doc_id < num_docs)
           => /\ th[t].result = FreshGet(th[t].doc_id)
              /\ th[t].doc_id \notin St.damaged
                 => th[t].result = Ok(<<Written(th[t].doc_id)>>)

\* Thread 1 got the block of document 0 from the cache and has not extracted
\* yet; thread 2 has since inserted LRU_CACHE_CAPACITY blocks, the last insert
\* evicting that block.
C15_Witness ==
    /\ store = "evict"
    /\ pc[1] = "extract"
    /\ th[1].doc_id = 0
    /\ th[1].looked_up = "hit"
    /\ th[1].block = BlockAt(KeyOf(1))
    /\ CacheIndex(cache, KeyOf(1)) = {}
    /\ Len(cache) = LRU_CACHE_CAPACITY
    /\ cache[LRU_CACHE_CAPACITY].by = 2

\* The threads between the count of their miss and the end of their insert.
Inserting == {t \in Threads : pc[t] \in {"read", "decompress", "lock_put", "put"}}

(***************************************************************************)
(* C16.  In every reachable state, under any interleaving of get and       *)
(* get_multiple calls, the cache holds at most min(100, cache_misses)      *)
(* entries: an entry is created only by a call that has counted its miss   *)
(* before, and a lookup hit or a failed call adds none.                    *)
(***************************************************************************)
C16_EntriesBoundedByMisses ==
    /\ Len(cache) <= LRU_CACHE_CAPACITY
    /\ Len(cache) <= cache_misses
    /\ Cardinality({cache[i].key : i \in 1..Len(cache)}) + Cardinality(Inserting)
          <= cache_misses

\* Two concurrent calls, a batch that missed and then hit on the first block
\* and a call that failed on the unreadable one: 2 misses, 1 hit, 1 entry.
C16_Witness ==
    /\ store = "batch"
    /\ \A t \in Threads : Completed(t)
    /\ \E t \in Threads : th[t].op = "get_multiple" /\ th[t].result.kind = "Ok"
                          /\ Len(th[t].doc_ids) = 2
    /\ \E t \in Threads : th[t].result = IoError
    /\ cache_hits = 1
    /\ cache_misses = 2
    /\ Len(cache) = 1

(***************************************************************************)
(* The block of thread t's latest get cannot be had: its range cannot be   *)
(* read, or the codec rejects its bytes.                                   *)
(***************************************************************************)
BlockFails(t) ==
    \/ ~compressed_block(th[t].checkpoint).ok
    \/ ~decompress(compressed_block(th[t].checkpoint).bytes).ok

(***************************************************************************)
(* C17.  In a sequential run, when a get misses the cache and the read of  *)
(* the compressed range or the decompression then fails, the call returns  *)
(* the error, cache_misses has gone up by 1, cache_hits has not moved, and *)
(* the cache keys and their recency order are what they were: nothing is   *)
(* inserted for the block, so a later get of it misses again.              *)
(***************************************************************************)
C17_FailedMissIsCountedAndNotCached ==
    \A t \in Threads :
        (ReadBlockDone(t) /\ ~WasCached(t) /\ BlockFails(t))
        => /\ pc[t] = "idle"
           /\ th[t].result = IoError
           /\ cache_misses = th[t].snap.misses + 1
           /\ cache_hits = th[t].snap.hits
           /\ CacheKeys(cache) = th[t].snap.keys
           /\ CacheIndex(cache, KeyOf(t)) = {}

\* The second get of a block the codec rejects, after a get that cached
\* another block: it missed again.
C17_Witness ==
    /\ store = "faulty"
    /\ CompletedGet(1)
    /\ th[1].doc_id = 2
    /\ th[1].fetched = {KeyOf(1)}
    /\ th[1].snap.last = KeyOf(1)
    /\ th[1].snap.misses = 2
    /\ cache_misses = 3
    /\ th[1].result = IoError
    /\ Len(cache) = 1

\* Thread t's latest get was of an id that has no checkpoint.
LookupFailed(t) ==
    /\ pc[t] = "idle"
    /\ th[t].gets # <<>>
    /\ th[t].doc_id = th[t].gets[Len(th[t].gets)]
    /\ ~block_checkpoint(th[t].doc_id).some

(***************************************************************************)
(* C18.  A get that fails with a lookup error (no checkpoint for the id)   *)
(* leaves the cache keys and their recency order, cache_hits and           *)
(* cache_misses as they were, and reads nothing from storage.              *)
(***************************************************************************)
C18_LookupErrorTouchesNothing ==
    \A t \in Threads :
        LookupFailed(t)
        => /\ th[t].result.kind = "InvalidArgument"
           /\ th[t].result.id = th[t].doc_id
           /\ CacheKeys(cache) = th[t].snap.keys
           /\ cache_hits = th[t].snap.hits
           /\ cache_misses = th[t].snap.misses
           /\ last_access = th[t].snap.last
           /\ th[t].looked_up = "no"
           /\ th[t].op = "get" => th[t].fetched = {} /\ th[t].prefetched = {}

\* get(5) on the five-document store with two blocks cached.
C18_Witness ==
    /\ store = "good"
    /\ CompletedGet(1)
    /\ LookupFailed(1)
    /\ th[1].doc_id = 5
    /\ Len(cache) = 2
    /\ Len(th[1].snap.keys) = 2
    /\ cache_misses = 2
    /\ th[1].fetched = {}

(***************************************************************************)
(* Fair scheduling of the two callers: a thread that can take a step of    *)
(* its call eventually takes it, and a thread that finds the Mutex free    *)
(* again and again eventually gets it.                                     *)
(***************************************************************************)
ConcThreads == {1, 2}

FairConc ==
    \A t \in ConcThreads :
        /\ WF_vars(Seek(t) \/ Lookup(t) \/ CountMiss(t) \/ ReadCompressed(t)
                     \/ Decompress(t) \/ Put(t) \/ Extract(t))
        /\ SF_vars(LockLookup(t) \/ LockPut(t))

InitFair == InitWith({"fair"}, ConcThreads)

SpecFair == InitFair /\ [][NextConc]_vars /\ FairConc

\* Thread t waits for the cache lock.
Waiting(t) == pc[t] \in {"lock_lookup", "lock_put"}

\* No thread asks for the lock it holds, the holder is at the lookup or the
\* insert that ends with the release, and when calls are in flight one of
\* them can take a step.
LockDiscipline ==
    /\ \A t \in Threads : Waiting(t) => lock # t
    /\ \A t \in Threads : lock = t => pc[t] \in {"lookup", "put"}
    /\ (\E t \in Threads : pc[t] # "idle")
       => \E t \in Threads : pc[t] # "idle" /\ (Waiting(t) => lock = NoThread)

(***************************************************************************)
(* C19.  With threads calling get on one shared reader, no state is        *)
(* reachable in which every in-flight thread is blocked on the cache lock, *)
(* a thread never asks for the lock while it holds it and gives it back    *)
(* after each lookup and each insert, and under fair scheduling every get  *)
(* eventually returns.                                                     *)
(***************************************************************************)
C19_NoDeadlockAndEveryGetReturns ==
    /\ []LockDiscipline
    /\ \A t \in ConcThreads : (pc[t] # "idle") ~> (pc[t] = "idle")

\* Thread 1 waits for the lock to insert its block while thread 2 is inside
\* its own insert of the same block.
C19_Witness ==
    /\ pc[1] = "lock_put"
    /\ pc[2] = "put"
    /\ lock = 2
    /\ KeyOf(1) = KeyOf(2)

=============================================================================
